---------------------------- MODULE Spec2Model ----------------------------
(***************************************************************************)
(* Model of the attendance tracker:                                        *)
(*   attendance_reader.py   AttendanceReader  (section locator + decoder)  *)
(*   attendance_tracker.py  AttendanceTracker (qualification engine)       *)
(*                                                                         *)
(* Datetimes are integers (seconds on one time line).  A float fraction is *)
(* a numerator over the power of two FracDen, so that every product the    *)
(* code forms in double precision is exact.  The rows the csv reader       *)
(* yields are a sequence of field sequences; Python index i is TLA+ index  *)
(* i + 1.                                                                  *)
(***************************************************************************)
EXTENDS Integers, Sequences, FiniteSets, TLC

VARIABLES
    \* ---- AttendanceTracker.get_qualified_participants ----
    activities,                     \* self._attendance_reader.in_meeting_activities
    session_start_time,             \* argument
    session_end_time,               \* argument
    minimum_attendance_percentage,  \* argument: numerator over FracDen
    minimum_minutes_threshold,      \* local, lines 56-59
    contributed_minutes,            \* the += operand of line 73, per activity
    participant_time_mapping,       \* local dict, in insertion order
    qualified_participants,         \* the returned list
    tpc,                            \* "idle" | "returned"
    \* ---- AttendanceReader ----
    rows,                           \* the rows self._csv_reader yields
    section_indexes,                \* self._section_indexes
    rpc,                            \* "new" | "ready" | "failed"
    accessor,                       \* the property last read
    outcome,                        \* "none" | "ok" | the exception raised
    value                           \* what the property returned

tvars == <<activities, session_start_time, session_end_time,
           minimum_attendance_percentage, minimum_minutes_threshold,
           contributed_minutes, participant_time_mapping,
           qualified_participants, tpc>>

rvars == <<rows, section_indexes, rpc, accessor, outcome, value>>

vars == <<tvars, rvars>>

----------------------------------------------------------------------------
(* Bounds and program constants *)

SecondsPerMinute == 60

MaxFineActs == 1
MaxActs == 3

TimeStep == SecondsPerMinute \div 2

\* instants half a minute apart, so that differences fall on and between
\* whole minutes, on both sides of zero
Times == {0, TimeStep, 2 * TimeStep, 3 * TimeStep}
CoarseTimes == {0, 2 * TimeStep}
Emails == {"a@x", "b@x"}

\* minimum_attendance_percentage in [0, 1]: quarters, exact as doubles
Fractions == 0..4
FracDen == Cardinality(Fractions) - 1

InMeetingActivity(T) == [email : Emails, join_time : T, leave_time : T]

SeqsUpTo(S, n) == UNION {[1..k -> S] : k \in 0..n}

----------------------------------------------------------------------------
(* Python arithmetic *)

Max(a, b) == IF a >= b THEN a ELSE b
Min(a, b) == IF a <= b THEN a ELSE b

\* float // 60 : floor division, rounds toward minus infinity
FloorDiv(a, b) == a \div b

\* int(x) of the float n / d (d > 0): truncation toward zero
IntTrunc(n, d) == IF n >= 0 THEN n \div d ELSE -((-n) \div d)

----------------------------------------------------------------------------
(* dict[str, int] in insertion order: a sequence of [key, value] *)

HasKey(mapping, key) == \E i \in 1..Len(mapping) : mapping[i].key = key

SetDefaultZero(mapping, key) ==
    IF HasKey(mapping, key) THEN mapping
    ELSE Append(mapping, [key |-> key, value |-> 0])

\* faulty variant: = in place of +=
AddToOverwrites(mapping, key, inc) ==
    [i \in 1..Len(mapping) |->
        IF mapping[i].key = key
        THEN [mapping[i] EXCEPT !.value = inc]
        ELSE mapping[i]]

AddTo(mapping, key, inc) ==
    [i \in 1..Len(mapping) |->
        IF mapping[i].key = key
        THEN [mapping[i] EXCEPT !.value = @ + inc]
        ELSE mapping[i]]

----------------------------------------------------------------------------
(* get_qualified_participants *)

\* faulty variant: the fraction applied to the un-rounded minutes, the product floored
ThresholdOfUnroundedMinutes(start, end, pct) ==
    FloorDiv((end - start) * pct, SecondsPerMinute * FracDen)

\* lines 56-59
MinimumMinutesThreshold(start, end, pct) ==
    IntTrunc(FloorDiv(end - start, SecondsPerMinute) * pct, FracDen)

\* lines 65-69: the int 0, or a datetime
StartTime(activity, start, end) ==
    IF activity.join_time >= end
    THEN [kind |-> "int", v |-> 0]
    ELSE [kind |-> "datetime", v |-> Max(start, activity.leave_time)]

\* line 71
EndTime(activity, end) == Min(end, activity.join_time)

\* faulty variant: int() of a true division, which truncates toward zero
ContributionTruncated(activity, start, end) ==
    IF StartTime(activity, start, end) = [kind |-> "int", v |-> 0]
    THEN 0
    ELSE IntTrunc(EndTime(activity, end) - StartTime(activity, start, end).v,
                  SecondsPerMinute)

\* faulty variant: the overlap of [join, leave) with the window, join and leave in
\* their own roles
ContributionOfPresence(activity, start, end) ==
    IF StartTime(activity, start, end) = [kind |-> "int", v |-> 0]
    THEN 0
    ELSE FloorDiv(Min(end, activity.leave_time) - Max(start, activity.join_time),
                  SecondsPerMinute)

\* lines 73-77: a datetime never equals the int 0
Contribution(activity, start, end) ==
    LET start_time == StartTime(activity, start, end)
        end_time == EndTime(activity, end)
    IN IF start_time = [kind |-> "int", v |-> 0]
       THEN 0
       ELSE FloorDiv(end_time - start_time.v, SecondsPerMinute)

\* faulty variant: the key is deleted and inserted again on every update, so that the
\* dict is in last-update order
LoopBodyReinserts(mapping, activity, start, end) ==
    LET m == SetDefaultZero(mapping, activity.email)
        old == CHOOSE i \in 1..Len(m) : m[i].key = activity.email
    IN Append(SelectSeq(m, LAMBDA kv : kv.key # activity.email),
              [key |-> activity.email,
               value |-> m[old].value + Contribution(activity, start, end)])

\* lines 62-77: one iteration of the loop
LoopBody(mapping, activity, start, end) ==
    AddTo(SetDefaultZero(mapping, activity.email), activity.email,
          Contribution(activity, start, end))

\* lines 61-77
RECURSIVE ActivityLoop(_, _, _, _, _)
ActivityLoop(acts, i, mapping, start, end) ==
    IF i > Len(acts) THEN mapping
    ELSE ActivityLoop(acts, i + 1, LoopBody(mapping, acts[i], start, end),
                      start, end)

\* line 80
Qualifies(total_time, threshold) == total_time >= threshold

\* lines 79-81
RECURSIVE SelectQualified(_, _, _, _)
SelectQualified(mapping, i, threshold, out) ==
    IF i > Len(mapping) THEN out
    ELSE SelectQualified(mapping, i + 1, threshold,
            IF Qualifies(mapping[i].value, threshold)
            THEN Append(out, mapping[i].key) ELSE out)

\* lines 46-83 as a function of its inputs
QualifiedParticipants(acts, start, end, pct) ==
    SelectQualified(ActivityLoop(acts, 1, <<>>, start, end), 1,
                    MinimumMinutesThreshold(start, end, pct), <<>>)

\* One call per behaviour: the call keeps nothing between calls (every
\* variable it writes is a local), so a second call starts as the first.
get_qualified_participants(start, end, pct) ==
    /\ tpc = "idle"
    /\ session_start_time' = start
    /\ session_end_time' = end
    /\ minimum_attendance_percentage' = pct
    /\ minimum_minutes_threshold' = MinimumMinutesThreshold(start, end, pct)
    /\ contributed_minutes' =
          [i \in 1..Len(activities) |-> Contribution(activities[i], start, end)]
    /\ participant_time_mapping' = ActivityLoop(activities, 1, <<>>, start, end)
    /\ qualified_participants' = QualifiedParticipants(activities, start, end, pct)
    /\ tpc' = "returned"
    /\ UNCHANGED <<activities, rvars>>

----------------------------------------------------------------------------
(* AttendanceReader *)

HeadingSkip == 2
TrailerRows == 3

\* AttendanceConfig.section_headings_mapping
SectionHeadingsMapping ==
    ("Start time" :> "START_TIME")
    @@ ("2. Participants" :> "PARTICIPANTS")
    @@ ("3. In-Meeting Activities" :> "MEETING_ACTIVITIES")
    @@ ("4. Explicit Audio and Video Consent Information"
            :> "VIDEO_AND_AUDIO_CONSENT")

SectionHeading ==
    {"START_TIME", "PARTICIPANTS", "MEETING_ACTIVITIES",
     "VIDEO_AND_AUDIO_CONSENT"}

\* datetime.strptime under "%m/%d/%y, %I:%M:%S %p": the texts the pattern
\* matches, each with its instant (seconds of the day); every other text
\* raises ValueError
DateTimeTexts ==
    ("03/21/24, 02:15:07 PM" :> (14 * 60 + 15) * SecondsPerMinute + 7)
    @@ ("03/21/24, 12:00:30 AM" :> 30)
    @@ ("03/21/24, 03:00:00 PM" :> (15 * 60) * SecondsPerMinute)

Matches(date_time_str) == date_time_str \in DOMAIN DateTimeTexts

convert_string_to_datetime(date_time_str) == DateTimeTexts[date_time_str]

\* faulty variant: the first occurrence of a heading wins
RECURSIVE extract_section_indexes_first(_, _, _)
extract_section_indexes_first(rws, index, indexes) ==
    IF index >= Len(rws) THEN [status |-> "ok", indexes |-> indexes]
    ELSE LET record == rws[index + 1] IN
         IF Len(record) = 0
         THEN [status |-> "IndexError", indexes |-> indexes]
         ELSE LET section_name == record[1] IN
              IF section_name \in DOMAIN SectionHeadingsMapping
              THEN extract_section_indexes_first(rws, index + 1,
                      indexes @@ (SectionHeadingsMapping[section_name]
                                      :> index + HeadingSkip))
              ELSE extract_section_indexes_first(rws, index + 1, indexes)

\* lines 61-73; record[0] of an empty record raises IndexError
RECURSIVE extract_section_indexes(_, _, _)
extract_section_indexes(rws, index, indexes) ==
    IF index >= Len(rws) THEN [status |-> "ok", indexes |-> indexes]
    ELSE LET record == rws[index + 1] IN
         IF Len(record) = 0
         THEN [status |-> "IndexError", indexes |-> indexes]
         ELSE LET section_name == record[1] IN
              IF section_name \in DOMAIN SectionHeadingsMapping
              THEN extract_section_indexes(rws, index + 1,
                      (SectionHeadingsMapping[section_name]
                          :> index + HeadingSkip) @@ indexes)
              ELSE extract_section_indexes(rws, index + 1, indexes)

\* lines 105-119: what one row decodes to, or the exception its first
\* failing field access or conversion raises
DecodeParticipant(record) ==
    IF Len(record) < 2 THEN [status |-> "IndexError"]
    ELSE IF ~Matches(record[2]) THEN [status |-> "ValueError"]
    ELSE IF Len(record) < 3 THEN [status |-> "IndexError"]
    ELSE IF ~Matches(record[3]) THEN [status |-> "ValueError"]
    ELSE IF Len(record) < 7 THEN [status |-> "IndexError"]
    ELSE [status |-> "ok",
          record |-> [email |-> record[5],
                      first_join |-> convert_string_to_datetime(record[2]),
                      last_leave |-> convert_string_to_datetime(record[3]),
                      in_meeting_duration |-> record[4],
                      participant_id |-> record[6],
                      role |-> record[7]]]

\* lines 134-148
DecodeActivity(record) ==
    IF Len(record) < 2 THEN [status |-> "IndexError"]
    ELSE IF ~Matches(record[2]) THEN [status |-> "ValueError"]
    ELSE IF Len(record) < 3 THEN [status |-> "IndexError"]
    ELSE IF ~Matches(record[3]) THEN [status |-> "ValueError"]
    ELSE IF Len(record) < 6 THEN [status |-> "IndexError"]
    ELSE [status |-> "ok",
          record |-> [name |-> record[1],
                      email |-> record[5],
                      join_time |-> convert_string_to_datetime(record[2]),
                      leave_time |-> convert_string_to_datetime(record[3]),
                      duration |-> record[4],
                      role |-> record[6]]]

\* list indexing: a negative index counts from the end
InRange(rws, index) == -Len(rws) <= index /\ index < Len(rws)
Item(rws, index) ==
    IF index >= 0 THEN rws[index + 1] ELSE rws[Len(rws) + index + 1]

\* lines 102-121: for index in range(start_index, end_index)
RECURSIVE ParticipantsLoop(_, _, _, _)
ParticipantsLoop(rws, index, end_index, participants) ==
    IF index >= end_index THEN [status |-> "ok", value |-> participants]
    ELSE IF ~InRange(rws, index) THEN [status |-> "IndexError", value |-> <<>>]
    ELSE LET d == DecodeParticipant(Item(rws, index)) IN
         IF d.status # "ok" THEN [status |-> d.status, value |-> <<>>]
         ELSE ParticipantsLoop(rws, index + 1, end_index,
                               Append(participants, d.record))

\* lines 131-150
RECURSIVE ActivitiesLoop(_, _, _, _)
ActivitiesLoop(rws, index, end_index, meeting_activities) ==
    IF index >= end_index THEN [status |-> "ok", value |-> meeting_activities]
    ELSE IF ~InRange(rws, index) THEN [status |-> "IndexError", value |-> <<>>]
    ELSE LET d == DecodeActivity(Item(rws, index)) IN
         IF d.status # "ok" THEN [status |-> d.status, value |-> <<>>]
         ELSE ActivitiesLoop(rws, index + 1, end_index,
                             Append(meeting_activities, d.record))

\* the section labels each extraction method looks up
StartTimeKeys == {"START_TIME"}
ParticipantsKeys == {"PARTICIPANTS", "MEETING_ACTIVITIES"}
ActivitiesKeys == {"MEETING_ACTIVITIES", "VIDEO_AND_AUDIO_CONSENT"}

\* lines 91-94
extract_start_time(rws, indexes) ==
    IF ~(StartTimeKeys \subseteq DOMAIN indexes)
    THEN [status |-> "KeyError", value |-> <<>>]
    ELSE LET start_time_index == indexes["START_TIME"] IN
         IF ~InRange(rws, start_time_index)
         THEN [status |-> "IndexError", value |-> <<>>]
         ELSE LET record == Item(rws, start_time_index) IN
              IF Len(record) < 2 THEN [status |-> "IndexError", value |-> <<>>]
              ELSE IF ~Matches(record[2])
              THEN [status |-> "ValueError", value |-> <<>>]
              ELSE [status |-> "ok",
                    value |-> <<convert_string_to_datetime(record[2])>>]

\* faulty variant: the range runs up to the next heading's own row
extract_participants_to_heading(rws, indexes) ==
    IF ~(ParticipantsKeys \subseteq DOMAIN indexes)
    THEN [status |-> "KeyError", value |-> <<>>]
    ELSE ParticipantsLoop(rws, indexes["PARTICIPANTS"],
                          indexes["MEETING_ACTIVITIES"] - HeadingSkip, <<>>)

\* lines 96-123
extract_participants(rws, indexes) ==
    IF ~(ParticipantsKeys \subseteq DOMAIN indexes)
    THEN [status |-> "KeyError", value |-> <<>>]
    ELSE ParticipantsLoop(rws, indexes["PARTICIPANTS"],
                          indexes["MEETING_ACTIVITIES"] - TrailerRows, <<>>)

\* faulty variant: a missing consent section ends the range at the last row
extract_in_meeting_activities_to_end(rws, indexes) ==
    IF "MEETING_ACTIVITIES" \notin DOMAIN indexes
    THEN [status |-> "KeyError", value |-> <<>>]
    ELSE ActivitiesLoop(rws, indexes["MEETING_ACTIVITIES"],
                        IF "VIDEO_AND_AUDIO_CONSENT" \in DOMAIN indexes
                        THEN indexes["VIDEO_AND_AUDIO_CONSENT"] - TrailerRows
                        ELSE Len(rws), <<>>)

\* lines 125-152
extract_in_meeting_activities(rws, indexes) ==
    IF ~(ActivitiesKeys \subseteq DOMAIN indexes)
    THEN [status |-> "KeyError", value |-> <<>>]
    ELSE ActivitiesLoop(rws, indexes["MEETING_ACTIVITIES"],
                        indexes["VIDEO_AND_AUDIO_CONSENT"] - TrailerRows, <<>>)

\* lines 44-59: AttendanceReader(...) scans the rows once; an exception
\* leaves no reader
AttendanceReader ==
    /\ rpc = "new"
    /\ LET r == extract_section_indexes(rows, 0, <<>>) IN
          /\ section_indexes' = r.indexes
          /\ rpc' = IF r.status = "ok" THEN "ready" ELSE "failed"
    /\ UNCHANGED <<rows, accessor, outcome, value, tvars>>

Read(name, r) ==
    /\ rpc = "ready"
    /\ accessor' = name
    /\ outcome' = r.status
    /\ value' = r.value
    /\ UNCHANGED <<rows, section_indexes, rpc, tvars>>

\* lines 75-77
start_time == Read("start_time", extract_start_time(rows, section_indexes))

\* lines 79-81
participants ==
    Read("participants", extract_participants(rows, section_indexes))

\* lines 83-85
in_meeting_activities ==
    Read("in_meeting_activities",
         extract_in_meeting_activities(rows, section_indexes))

----------------------------------------------------------------------------
(* The rows of an input *)

MaxRows == 4
MaxData == 2

HeadingRows == {<<h>> : h \in DOMAIN SectionHeadingsMapping}
BlankRow == <<>>
EmptyFieldRow == <<"">>
\* a column-header row: a heading text, but not in its first field
HeaderRow == <<"Name", "2. Participants">>
RowA == <<"Ann", "03/21/24, 02:15:07 PM", "03/21/24, 03:00:00 PM", "44m 53s",
          "a@x", "id-a", "Attendee">>
RowB == <<"Bob", "03/21/24, 12:00:30 AM", "03/21/24, 02:15:07 PM", "14h",
          "b@x", "id-b", "Organizer">>
ShortRow == <<"Cy", "03/21/24, 02:15:07 PM", "03/21/24, 03:00:00 PM">>
BadDateRow == <<"Di", "21.03.2024 14:15", "03/21/24, 03:00:00 PM", "1m",
                "d@x", "id-d", "Attendee">>

StartRow == <<"Meeting", "03/21/24, 02:15:07 PM">>

AnyRows == HeadingRows \cup {BlankRow, HeaderRow, RowA, RowB}
DataRows == {RowA, RowB, ShortRow, BadDateRow}

\* the layout of an export: per section a heading row, a column-header row,
\* the data rows, and a separator before the next heading
Export(lead, sep, pdata, adata) ==
    lead \o <<<<"2. Participants">>, HeaderRow>> \o pdata
         \o <<sep, <<"3. In-Meeting Activities">>, HeaderRow>> \o adata
         \o <<sep, <<"4. Explicit Audio and Video Consent Information">>,
              HeaderRow>>

Exports ==
    {Export(lead, sep, pdata, adata) :
        lead \in {<<>>, <<<<"Start time">>, HeaderRow, StartRow>>},
        sep \in {BlankRow, EmptyFieldRow},
        pdata \in SeqsUpTo(DataRows, MaxData),
        adata \in SeqsUpTo(DataRows, MaxData)}

RowInputs == SeqsUpTo(AnyRows, MaxRows) \cup Exports

InitReader ==
    /\ rows \in RowInputs
    /\ section_indexes = <<>>
    /\ rpc = "new"
    /\ accessor = "none"
    /\ outcome = "none"
    /\ value = <<>>
    /\ activities = <<>>
    /\ session_start_time = 0
    /\ session_end_time = 0
    /\ minimum_attendance_percentage = 0
    /\ minimum_minutes_threshold = 0
    /\ contributed_minutes = <<>>
    /\ participant_time_mapping = <<>>
    /\ qualified_participants = <<>>
    /\ tpc = "idle"

NextReader ==
    \/ AttendanceReader
    \/ start_time
    \/ participants
    \/ in_meeting_activities

SpecReader == InitReader /\ [][NextReader]_vars

----------------------------------------------------------------------------

ActivityInputs ==
    SeqsUpTo(InMeetingActivity(Times), MaxFineActs)
        \cup SeqsUpTo(InMeetingActivity(CoarseTimes), MaxActs)

Init ==
    /\ activities \in ActivityInputs
    /\ session_start_time = 0
    /\ session_end_time = 0
    /\ minimum_attendance_percentage = 0
    /\ minimum_minutes_threshold = 0
    /\ contributed_minutes = <<>>
    /\ participant_time_mapping = <<>>
    /\ qualified_participants = <<>>
    /\ tpc = "idle"
    /\ rows = <<>>
    /\ section_indexes = <<>>
    /\ rpc = "new"
    /\ accessor = "none"
    /\ outcome = "none"
    /\ value = <<>>

Next ==
    \E start \in Times, end \in Times, pct \in Fractions :
        get_qualified_participants(start, end, pct)

Spec == Init /\ [][Next]_vars

----------------------------------------------------------------------------
(* Properties of get_qualified_participants (checked under Spec) *)

Range(s) == {s[i] : i \in DOMAIN s}

Returned == tpc = "returned"

WindowSeconds == session_end_time - session_start_time

\* the whole minutes m of a number of seconds: 60 m <= seconds < 60 (m + 1)
IsFloorMinutes(m, seconds) ==
    /\ SecondsPerMinute * m <= seconds
    /\ seconds < SecondsPerMinute * (m + 1)

\* q is the quotient n / d (d > 0) rounded toward zero
IsTruncation(q, n, d) ==
    IF n >= 0 THEN q * d <= n /\ n < (q + 1) * d
    ELSE (q - 1) * d < n /\ n <= q * d

RECURSIVE SumOf(_, _)
SumOf(f, S) ==
    IF S = {} THEN 0
    ELSE LET i == CHOOSE j \in S : TRUE IN f[i] + SumOf(f, S \ {i})

ActivitiesOf(email) ==
    {i \in 1..Len(activities) : activities[i].email = email}

TotalOf(email) == SumOf(contributed_minutes, ActivitiesOf(email))

FirstAppearance(email) ==
    CHOOSE i \in ActivitiesOf(email) : \A j \in ActivitiesOf(email) : i <= j

\* C1: an activity with join_time >= the window's end contributes 0 minutes;
\* any other contributes floor((min(end, join) - max(start, leave)) / 60)
\* minutes, join and leave in these swapped roles, a negative result kept.
C1_ContributionIsSwappedFloor ==
    Returned =>
        \A i \in 1..Len(activities) :
            LET a == activities[i]
                overlapStart == Max(session_start_time, a.leave_time)
                overlapEnd == Min(session_end_time, a.join_time)
            IN IF a.join_time >= session_end_time
               THEN contributed_minutes[i] = 0
               ELSE IsFloorMinutes(contributed_minutes[i],
                                   overlapEnd - overlapStart)

\* an activity that contributed a negative, rounded-down number of minutes
C1_Witness ==
    /\ Returned
    /\ \E i \in 1..Len(activities) :
          /\ activities[i].join_time < session_end_time
          /\ activities[i].join_time
                - Max(session_start_time, activities[i].leave_time) = -TimeStep
          /\ contributed_minutes[i] = -1

\* C2 as stated: the threshold is floor((window seconds / 60) * fraction), the
\* fraction applied to the un-rounded minutes and the product rounded down.
C2_ThresholdFloorsTheProduct ==
    Returned =>
        \E t \in {minimum_minutes_threshold} :
            /\ t * SecondsPerMinute * FracDen
                  <= WindowSeconds * minimum_attendance_percentage
            /\ WindowSeconds * minimum_attendance_percentage
                  < (t + 1) * SecondsPerMinute * FracDen

\* C2 as amended: the threshold is the window's minutes rounded down first,
\* times the fraction, that product rounded toward zero.
C2_ThresholdTruncatesFlooredMinutes ==
    Returned =>
        \E m \in -Cardinality(Times)..Cardinality(Times) :
            /\ IsFloorMinutes(m, WindowSeconds)
            /\ IsTruncation(minimum_minutes_threshold,
                            m * minimum_attendance_percentage, FracDen)

\* a window of a minute and a half at three quarters: threshold 0, where the
\* un-rounded product 1.125 rounds down to 1
C2_Witness ==
    /\ Returned
    /\ WindowSeconds = 3 * TimeStep
    /\ minimum_attendance_percentage = 3
    /\ minimum_minutes_threshold = 0

\* C3: an email is returned iff it carries an activity and the sum of the
\* minutes of all its activities is >= the threshold.
C3_QualifiedIffSumMeetsThreshold ==
    Returned =>
        /\ \A e \in Emails :
              e \in Range(qualified_participants)
                  <=> /\ ActivitiesOf(e) # {}
                      /\ TotalOf(e) >= minimum_minutes_threshold
        /\ Range(qualified_participants) \subseteq Emails

\* an email returned on the sum of a positive and a later negative
\* contribution, neither of which is the sum
C3_Witness ==
    /\ Returned
    /\ \E e \in Range(qualified_participants) :
          \E i, j \in ActivitiesOf(e) :
              /\ i < j
              /\ contributed_minutes[i] = 1
              /\ contributed_minutes[j] = -1
              /\ minimum_minutes_threshold = 0
              /\ Cardinality(ActivitiesOf(e)) = 2

\* C4 as stated: for the same activities and window, the emails returned for
\* a smaller fraction include those returned for a larger one.
C4_MonotonicInFraction ==
    Returned =>
        \A f \in Fractions :
            f < minimum_attendance_percentage =>
                Range(qualified_participants)
                    \subseteq Range(QualifiedParticipants(activities,
                                       session_start_time, session_end_time, f))

\* C5 as stated: with the window's end <= its start, every email of an
\* activity is returned.
C5_EmptyWindowQualifiesAll ==
    (Returned /\ session_end_time <= session_start_time) =>
        \A i \in 1..Len(activities) :
            activities[i].email \in Range(qualified_participants)

\* C6: the returned list holds no email twice and is in the order of the
\* emails' first activities.
C6_FirstAppearanceOrder ==
    Returned =>
        /\ \A k \in 1..Len(qualified_participants) :
              ActivitiesOf(qualified_participants[k]) # {}
        /\ \A k, l \in 1..Len(qualified_participants) :
              k < l => FirstAppearance(qualified_participants[k])
                          < FirstAppearance(qualified_participants[l])

\* two emails returned, the first of them with an activity after the
\* second's
C6_Witness ==
    /\ Returned
    /\ Len(activities) = 3
    /\ activities[1].email = activities[3].email
    /\ activities[1].email # activities[2].email
    /\ qualified_participants
          = <<activities[1].email, activities[2].email>>
    /\ contributed_minutes[3] # 0

WellFormed(a) == a.join_time <= a.leave_time

\* C10: an activity with join_time <= leave_time contributes <= 0 minutes;
\* when all are such, every total is <= 0 and a threshold >= 1 leaves the
\* returned list empty.
C10_PresenceNeverCounts ==
    Returned =>
        /\ \A i \in 1..Len(activities) :
              WellFormed(activities[i]) => contributed_minutes[i] <= 0
        /\ (\A i \in 1..Len(activities) : WellFormed(activities[i])) =>
              /\ \A k \in 1..Len(participant_time_mapping) :
                    participant_time_mapping[k].value <= 0
              /\ minimum_minutes_threshold >= 1
                    => qualified_participants = <<>>

\* present from the window's start to its end, a total below zero against a
\* threshold of one minute
C10_Witness ==
    /\ Returned
    /\ Len(activities) >= 1
    /\ \A i \in 1..Len(activities) :
          /\ WellFormed(activities[i])
          /\ activities[i].join_time = session_start_time
          /\ activities[i].leave_time = session_end_time
    /\ minimum_minutes_threshold = 1
    /\ \E k \in 1..Len(participant_time_mapping) :
          participant_time_mapping[k].value < 0
    /\ qualified_participants = <<>>

----------------------------------------------------------------------------
(* Properties of AttendanceReader (checked under SpecReader) *)

\* the Python indexes of the rows whose first field is a heading text of label
HeadingHits(label) ==
    {i \in 0..(Len(rows) - 1) :
        /\ Len(rows[i + 1]) >= 1
        /\ \E text \in DOMAIN SectionHeadingsMapping :
              /\ SectionHeadingsMapping[text] = label
              /\ rows[i + 1][1] = text}

Last(S) == CHOOSE i \in S : \A j \in S : j <= i

OneRecordPerRow(first, last) ==
    /\ Len(value) = Max(0, last - first)
    /\ \A k \in 1..Len(value) :
          /\ value[k].email = rows[first + k][5]
          /\ value[k].role = IF accessor = "participants"
                             THEN rows[first + k][7] ELSE rows[first + k][6]

DependsOn(name) ==
    CASE name = "start_time" -> {"START_TIME"}
      [] name = "participants" -> {"PARTICIPANTS", "MEETING_ACTIVITIES"}
      [] name = "in_meeting_activities"
            -> {"MEETING_ACTIVITIES", "VIDEO_AND_AUDIO_CONSENT"}

C9_UnaffectedWitness ==
    /\ accessor = "participants"
    /\ outcome = "ok"
    /\ DOMAIN section_indexes = {"PARTICIPANTS", "MEETING_ACTIVITIES"}

=============================================================================
